---- MODULE Spec2Model ----
(***************************************************************************)
(* Model of the client-side safety governor of the flashloan bot           *)
(* (src/utils/SafetyWrapper.js): the shared SAFETY_CONFIG object, the      *)
(* validators, the monitored-transaction wrapper and the administrative    *)
(* circuit-breaker calls.  JavaScript runs each synchronous function to    *)
(* completion, so every exported synchronous function is one action;       *)
(* monitoredTransaction is split at its single `await`.                    *)
(***************************************************************************)
EXTENDS Integers, Sequences, FiniteSets, TLC

(* ---------------- bounds of the model ---------------- *)
NumCallers == 2
MaxFailuresSeen == 4
MaxTradesSeen == 6
MaxExpectedOut == 200
MaxEvents == 4

Callers == 1..NumCallers

(* ---------------- SAFETY_CONFIG literals ---------------- *)
maxSlippageTolerance == 50
maxGasPrice == 1000
maxTradeSize == 10000
maxFailures == 3
maxTestTrades == 5
maxTestAmount == 500

authorizedFlashloanProviders ==
    { "0x7d2768dE32b0b80b7a3454c06BdAc94A69DDc7A9",
      "0x89d065572136814230A55DdEeDDEC9DF34EB0B76",
      "0x470fBfb1e62D0c1c0c5b6d3b5e5e5e5e5e5e5e5",
      "0x1F98431c8aD98523631AE4a59f267346ea31F984",
      "0xcA143Ce32Fe78f1f7019d7d551a6402fC5350c73" }

(* ---------------- inputs ---------------- *)
\* a field that the caller left out of txData (JavaScript undefined)
Absent == -1

GasPrices == {Absent, 1000, 1001}
Amounts == {Absent, 0, 500, 501, 10000, 10001}
TxDatas == [gasPrice : GasPrices, amount : Amounts]

\* an authorized address, the address of the test, a lower-cased authorized one
ProviderAddresses ==
    { "0x7d2768dE32b0b80b7a3454c06BdAc94A69DDc7A9",
      "0xcA143Ce32Fe78f1f7019d7d551a6402fC5350c73",
      "0x1234567890123456789012345678901234567890",
      "0x7d2768de32b0b80b7a3454c06bdac94a69ddc7a9",
      "undefined" }

StopReasons == {"Test emergency stop"}

(* ---------------- state ---------------- *)
VARIABLES circuitBreaker, testMode, pc, last, status, slippage, stopper,
          launcher

vars == <<circuitBreaker, testMode, pc, last, status, slippage, stopper,
          launcher>>

\* the state that the functions of SAFETY_CONFIG never touch: the latest
\* slippage computation, the stop script with the process it stops, and the
\* launcher
outside == <<slippage, stopper, launcher>>

NoTx == [gasPrice |-> Absent, amount |-> Absent]

\* One call of an exported function as its caller sees it: the function, its
\* arguments, how txPromise settled, whether the call returned or threw and
\* with which error, and SAFETY_CONFIG as it was when the step began.
Outcome(op, c, outcome, error, tx, provider, promise) ==
    [op |-> op, caller |-> c, outcome |-> outcome, error |-> error,
     txData |-> tx, provider |-> provider, promise |-> promise,
     before |-> [circuitBreaker |-> circuitBreaker, testMode |-> testMode]]

\* The object returned by the latest getSafetyStatus call, as its caller holds
\* it.  Its circuitBreaker and testMode properties are the objects of
\* SAFETY_CONFIG themselves (references), limits is a new object of numbers.
\* atReturn is what the caller read through the object when the call returned.
StatusObject(cbRef, tmRef, limits, atReturn) ==
    [taken |-> TRUE, circuitBreaker |-> cbRef, testMode |-> tmRef,
     limits |-> limits, atReturn |-> atReturn]

\* no getSafetyStatus call has returned yet
NoStatus ==
    [taken |-> FALSE, circuitBreaker |-> "none", testMode |-> "none",
     limits |-> [maxSlippage |-> [num |-> 0, den |-> 1], maxGasPrice |-> 0,
                 maxTradeSize |-> 0],
     atReturn |-> [enabled |-> FALSE]]

\* the object a reference designates, as it is now
Deref(ref) ==
    CASE ref = "SAFETY_CONFIG.circuitBreaker" -> circuitBreaker
      [] ref = "SAFETY_CONFIG.testMode" -> testMode

\* no calculateSafeSlippage call has returned yet
NoSlippage ==
    [called |-> FALSE, amountIn |-> 0, expectedOut |-> 0,
     safeMinOut |-> [num |-> 0, den |-> 1]]

\* stopBot is about to run: bot.pid exists and names the running bot
StopperStart ==
    [pc |-> "readPidFile", attempts |-> 0, pidFile |-> TRUE,
     proc |-> "running", signals |-> <<>>]

\* launch_bot.js as main() begins: lines 24-25, no bot.pid written yet
LauncherStart ==
    [phase |-> "launching", bot |-> FALSE, isShuttingDown |-> FALSE,
     shutdown |-> "none", exited |-> FALSE, pidFile |-> FALSE,
     calls |-> 0, stops |-> {}, unlinks |-> {}, cleanupStops |-> 0,
     lastCall |-> [index |-> 0, signal |-> "none", effect |-> "none"]]

Init ==
    /\ circuitBreaker = [consecutiveFailures |-> 0, maxFailures |-> maxFailures,
                         isActive |-> FALSE]
    /\ testMode = [enabled |-> TRUE, maxTestTrades |-> maxTestTrades,
                   completedTrades |-> 0, maxTestAmount |-> maxTestAmount]
    /\ pc = [c \in Callers |-> "idle"]
    /\ last = [op |-> "none", caller |-> 0, outcome |-> "none",
               error |-> "none", txData |-> NoTx, provider |-> "none",
               promise |-> "none",
               before |-> [circuitBreaker |-> circuitBreaker,
                           testMode |-> testMode]]
    /\ status = NoStatus
    /\ slippage = NoSlippage
    /\ stopper = StopperStart
    /\ launcher = LauncherStart

(* ---------------- helpers translated from the functions ---------------- *)

\* JavaScript truthiness of an optional numeric field: undefined and 0 are falsy
Truthy(v) == v # Absent /\ v # 0

\* variant: the stop also restarts the failure count
emergencyStopZeroes(cb) ==
    [cb EXCEPT !.isActive = TRUE, !.consecutiveFailures = 0]

\* variant: the stop is logged and thrown but the flag is not set
emergencyStopOnlyThrows(cb) == cb

\* emergencyStop: the assignment of line 33
emergencyStopSets(cb) == [cb EXCEPT !.isActive = TRUE]

\* variant: the decision is taken on the count read before the increment
checkCircuitBreakerReasonStale(cb) ==
    IF cb.consecutiveFailures - 1 >= cb.maxFailures
    THEN "Too many consecutive failures"
    ELSE IF cb.isActive
         THEN "Circuit breaker manually activated"
         ELSE "none"

\* variant: only the flag is looked at, the threshold comparison is missing
checkCircuitBreakerReasonManualOnly(cb) ==
    IF cb.isActive
    THEN "Circuit breaker manually activated"
    ELSE "none"

\* variant: the count has to pass the threshold
checkCircuitBreakerReasonStrict(cb) ==
    IF cb.consecutiveFailures > cb.maxFailures
    THEN "Too many consecutive failures"
    ELSE IF cb.isActive
         THEN "Circuit breaker manually activated"
         ELSE "none"

\* variant: stops one failure early
checkCircuitBreakerReasonEarly(cb) ==
    IF cb.consecutiveFailures >= cb.maxFailures - 1
    THEN "Too many consecutive failures"
    ELSE IF cb.isActive
         THEN "Circuit breaker manually activated"
         ELSE "none"

\* checkCircuitBreaker: the reason it stops for, "none" when it returns
checkCircuitBreakerReason(cb) ==
    IF cb.consecutiveFailures >= cb.maxFailures
    THEN "Too many consecutive failures"
    ELSE IF cb.isActive
         THEN "Circuit breaker manually activated"
         ELSE "none"

\* the lower-case spelling of the addresses used here
LowerCase(a) ==
    CASE a = "0x7d2768dE32b0b80b7a3454c06BdAc94A69DDc7A9" -> "0x7d2768de32b0b80b7a3454c06bdac94a69ddc7a9"
      [] a = "0x89d065572136814230A55DdEeDDEC9DF34EB0B76" -> "0x89d065572136814230a55ddeeddec9df34eb0b76"
      [] a = "0x470fBfb1e62D0c1c0c5b6d3b5e5e5e5e5e5e5e5" -> "0x470fbfb1e62d0c1c0c5b6d3b5e5e5e5e5e5e5e5"
      [] a = "0x1F98431c8aD98523631AE4a59f267346ea31F984" -> "0x1f98431c8ad98523631ae4a59f267346ea31f984"
      [] a = "0xcA143Ce32Fe78f1f7019d7d551a6402fC5350c73" -> "0xca143ce32fe78f1f7019d7d551a6402fc5350c73"
      [] OTHER -> a

\* variant: the addresses are compared without regard to case
providerIncludedIgnoringCase(providerAddress) ==
    \E b \in authorizedFlashloanProviders :
        LowerCase(b) = LowerCase(providerAddress)

\* validateFlashloanProvider: Array.prototype.includes is exact string equality
providerIncluded(providerAddress) ==
    providerAddress \in authorizedFlashloanProviders

\* variant: the production ceiling is applied in both modes
maxAllowedProduction(tm) == maxTradeSize

\* validateTransaction: the ceiling the trade-size check applies
maxAllowed(tm) == IF tm.enabled THEN tm.maxTestAmount ELSE maxTradeSize

\* variant: the test-trade limit is applied in production mode too
validateTransactionReasonLimitAlways(txData, tm) ==
    IF Truthy(txData.gasPrice) /\ txData.gasPrice > maxGasPrice
    THEN "Gas price too high"
    ELSE IF Truthy(txData.amount) /\ txData.amount > maxAllowed(tm)
         THEN "Trade size too large"
         ELSE IF tm.completedTrades >= tm.maxTestTrades
              THEN "Test mode limit reached"
              ELSE "none"

\* variant: the trade size is checked before the gas price
validateTransactionReasonSizeFirst(txData, tm) ==
    IF Truthy(txData.amount) /\ txData.amount > maxAllowed(tm)
    THEN "Trade size too large"
    ELSE IF Truthy(txData.gasPrice) /\ txData.gasPrice > maxGasPrice
         THEN "Gas price too high"
         ELSE IF tm.enabled /\ tm.completedTrades >= tm.maxTestTrades
              THEN "Test mode limit reached"
              ELSE "none"

\* variant: a gas price equal to the limit is refused
validateTransactionReasonGasAtLimit(txData, tm) ==
    IF Truthy(txData.gasPrice) /\ txData.gasPrice >= maxGasPrice
    THEN "Gas price too high"
    ELSE IF Truthy(txData.amount) /\ txData.amount > maxAllowed(tm)
         THEN "Trade size too large"
         ELSE IF tm.enabled /\ tm.completedTrades >= tm.maxTestTrades
              THEN "Test mode limit reached"
              ELSE "none"

\* variant: an amount equal to the ceiling is refused
validateTransactionReasonAtCeiling(txData, tm) ==
    IF Truthy(txData.gasPrice) /\ txData.gasPrice > maxGasPrice
    THEN "Gas price too high"
    ELSE IF Truthy(txData.amount) /\ txData.amount >= maxAllowed(tm)
         THEN "Trade size too large"
         ELSE IF tm.enabled /\ tm.completedTrades >= tm.maxTestTrades
              THEN "Test mode limit reached"
              ELSE "none"

\* variant: the test-mode check sits inside the `if (txData.amount)` block
validateTransactionReasonNested(txData, tm) ==
    IF Truthy(txData.gasPrice) /\ txData.gasPrice > maxGasPrice
    THEN "Gas price too high"
    ELSE IF Truthy(txData.amount) /\ txData.amount > maxAllowed(tm)
         THEN "Trade size too large"
         ELSE IF Truthy(txData.amount) /\ tm.enabled
                 /\ tm.completedTrades >= tm.maxTestTrades
              THEN "Test mode limit reached"
              ELSE "none"

\* variant: the test-mode check allows one trade more
validateTransactionReasonOneMore(txData, tm) ==
    IF Truthy(txData.gasPrice) /\ txData.gasPrice > maxGasPrice
    THEN "Gas price too high"
    ELSE IF Truthy(txData.amount) /\ txData.amount > maxAllowed(tm)
         THEN "Trade size too large"
         ELSE IF tm.enabled /\ tm.completedTrades > tm.maxTestTrades
              THEN "Test mode limit reached"
              ELSE "none"

\* variant: an active breaker rejects every validation
validateTransactionReasonGated(txData, tm) ==
    IF circuitBreaker.isActive
    THEN "Circuit breaker active"
    ELSE IF Truthy(txData.gasPrice) /\ txData.gasPrice > maxGasPrice
         THEN "Gas price too high"
         ELSE IF Truthy(txData.amount) /\ txData.amount > maxAllowed(tm)
              THEN "Trade size too large"
              ELSE IF tm.enabled /\ tm.completedTrades >= tm.maxTestTrades
                   THEN "Test mode limit reached"
                   ELSE "none"

\* validateTransaction: the first check that stops, in the order of the code
validateTransactionReason(txData, tm) ==
    IF Truthy(txData.gasPrice) /\ txData.gasPrice > maxGasPrice
    THEN "Gas price too high"
    ELSE IF Truthy(txData.amount) /\ txData.amount > maxAllowed(tm)
         THEN "Trade size too large"
         ELSE IF tm.enabled /\ tm.completedTrades >= tm.maxTestTrades
              THEN "Test mode limit reached"
              ELSE "none"

\* variant: a success also clears the breaker
successCircuitBreakerRecovers(cb) ==
    [cb EXCEPT !.consecutiveFailures = 0, !.isActive = FALSE]

\* monitoredTransaction, success path: lines 118-124
successCircuitBreaker(cb) == [cb EXCEPT !.consecutiveFailures = 0]

\* variant: the trade is counted whether or not test mode is enabled
successTestModeAlways(tm) ==
    [tm EXCEPT !.completedTrades = tm.completedTrades + 1]

successTestMode(tm) ==
    IF tm.enabled
    THEN [tm EXCEPT !.completedTrades = tm.completedTrades + 1]
    ELSE tm

\* variant: the failure is logged but not counted
failureCircuitBreakerForgets(cb) == cb

\* variant: the failure is counted twice
failureCircuitBreakerTwice(cb) ==
    [cb EXCEPT !.consecutiveFailures = cb.consecutiveFailures + 2]

\* monitoredTransaction, failure path: line 129
failureCircuitBreaker(cb) ==
    [cb EXCEPT !.consecutiveFailures = cb.consecutiveFailures + 1]

\* variant: the count is reset but the flag is kept
deactivatedKeepsFlag(cb) == [cb EXCEPT !.consecutiveFailures = 0]

\* variant: the flag is cleared but the count is kept
deactivatedKeepsCount(cb) == [cb EXCEPT !.isActive = FALSE]

\* deactivateCircuitBreaker: lines 158-159
deactivatedCircuitBreaker(cb) ==
    [cb EXCEPT !.isActive = FALSE, !.consecutiveFailures = 0]

\* variant: leaving test mode also restarts the trade counter
disabledTestModeResets(tm) ==
    [tm EXCEPT !.enabled = FALSE, !.completedTrades = 0]

\* variant: the reported ceiling is the production one in both modes
statusLimitsProduction(tm) ==
    [maxSlippage |-> [num |-> maxSlippageTolerance, den |-> 100],
     maxGasPrice |-> maxGasPrice,
     maxTradeSize |-> maxTradeSize]

\* variant: the reported ceiling is the test one in both modes
statusLimitsTest(tm) ==
    [maxSlippage |-> [num |-> maxSlippageTolerance, den |-> 100],
     maxGasPrice |-> maxGasPrice,
     maxTradeSize |-> tm.maxTestAmount]

\* getSafetyStatus: the limits object of lines 141-145; maxSlippage is the
\* quotient maxSlippageTolerance / 100, kept as a fraction
statusLimits(tm) ==
    [maxSlippage |-> [num |-> maxSlippageTolerance, den |-> 100],
     maxGasPrice |-> maxGasPrice,
     maxTradeSize |-> IF tm.enabled THEN tm.maxTestAmount ELSE maxTradeSize]

\* variant: the call flips the flag
disabledTestModeToggles(tm) == [tm EXCEPT !.enabled = ~@]

\* disableTestMode: line 165
disabledTestMode(tm) == [tm EXCEPT !.enabled = FALSE]

(* ---------------- actions ---------------- *)

\* a direct call of the exported emergencyStop(reason)
emergencyStop(c, reason) ==
    /\ pc[c] = "idle"
    /\ circuitBreaker' = emergencyStopSets(circuitBreaker)
    /\ last' = Outcome("emergencyStop", c, "threw", reason, NoTx, "none",
                       "none")
    /\ UNCHANGED <<testMode, pc, status, outside>>

\* a direct call of the exported checkCircuitBreaker()
checkCircuitBreaker(c) ==
    /\ pc[c] = "idle"
    /\ LET reason == checkCircuitBreakerReason(circuitBreaker) IN
         IF reason = "none"
         THEN /\ circuitBreaker' = circuitBreaker
              /\ last' = Outcome("checkCircuitBreaker", c, "returned", "none",
                                 NoTx, "none", "none")
         ELSE /\ circuitBreaker' = emergencyStopSets(circuitBreaker)
              /\ last' = Outcome("checkCircuitBreaker", c, "threw", reason,
                                 NoTx, "none", "none")
    /\ UNCHANGED <<testMode, pc, status, outside>>

validateFlashloanProvider(c, providerAddress) ==
    /\ pc[c] = "idle"
    /\ IF providerIncluded(providerAddress)
       THEN /\ circuitBreaker' = circuitBreaker
            /\ last' = Outcome("validateFlashloanProvider", c, "returned",
                               "none", NoTx, providerAddress, "none")
       ELSE /\ circuitBreaker' = emergencyStopSets(circuitBreaker)
            /\ last' = Outcome("validateFlashloanProvider", c, "threw",
                               "Unauthorized flashloan provider", NoTx,
                               providerAddress, "none")
    /\ UNCHANGED <<testMode, pc, status, outside>>

validateTransaction(c, txData) ==
    /\ pc[c] = "idle"
    /\ LET reason == validateTransactionReason(txData, testMode) IN
         IF reason = "none"
         THEN /\ circuitBreaker' = circuitBreaker
              /\ last' = Outcome("validateTransaction", c, "returned", "none",
                                 txData, "none", "none")
         ELSE /\ circuitBreaker' = emergencyStopSets(circuitBreaker)
              /\ last' = Outcome("validateTransaction", c, "threw", reason,
                                 txData, "none", "none")
    /\ UNCHANGED <<testMode, pc, status, outside>>

\* monitoredTransaction up to its await: the caller has already created
\* txPromise, so the operation is running when the wrapper gets control
monitoredTransactionCall(c) ==
    /\ pc[c] = "idle"
    /\ pc' = [pc EXCEPT ![c] = "awaiting"]
    /\ last' = Outcome("monitoredTransaction", c, "pending", "none", NoTx,
                       "none", "none")
    /\ UNCHANGED <<circuitBreaker, testMode, status, outside>>

\* txPromise fulfilled: lines 116-127
monitoredTransactionResolved(c) ==
    /\ pc[c] = "awaiting"
    /\ testMode.enabled => testMode.completedTrades < MaxTradesSeen
    /\ circuitBreaker' = successCircuitBreaker(circuitBreaker)
    /\ testMode' = successTestMode(testMode)
    /\ pc' = [pc EXCEPT ![c] = "idle"]
    /\ last' = Outcome("monitoredTransaction", c, "returned", "none", NoTx,
                       "none", "fulfilled")
    /\ UNCHANGED <<status, outside>>

\* txPromise rejected: lines 128-133
monitoredTransactionRejected(c) ==
    /\ pc[c] = "awaiting"
    /\ circuitBreaker.consecutiveFailures < MaxFailuresSeen
    /\ LET counted == failureCircuitBreaker(circuitBreaker)
           reason == checkCircuitBreakerReason(counted) IN
         IF reason = "none"
         THEN /\ circuitBreaker' = counted
              /\ last' = Outcome("monitoredTransaction", c, "threw",
                                 "operation failed", NoTx, "none",
                                 "rejected")
         ELSE /\ circuitBreaker' = emergencyStopSets(counted)
              /\ last' = Outcome("monitoredTransaction", c, "threw", reason,
                                 NoTx, "none", "rejected")
    /\ pc' = [pc EXCEPT ![c] = "idle"]
    /\ UNCHANGED <<testMode, status, outside>>

\* getSafetyStatus: lines 137-148
getSafetyStatus(c) ==
    /\ pc[c] = "idle"
    /\ status' = StatusObject("SAFETY_CONFIG.circuitBreaker",
                              "SAFETY_CONFIG.testMode",
                              statusLimits(testMode),
                              [enabled |-> testMode.enabled])
    /\ last' = Outcome("getSafetyStatus", c, "returned", "none", NoTx, "none",
                       "none")
    /\ UNCHANGED <<circuitBreaker, testMode, pc, outside>>

\* variant: the call waits until no monitored transaction is pending
activateCircuitBreakerLocked(c) ==
    /\ \A d \in Callers : pc[d] = "idle"
    /\ circuitBreaker' = [circuitBreaker EXCEPT !.isActive = TRUE]
    /\ last' = Outcome("activateCircuitBreaker", c, "returned", "none", NoTx,
                       "none", "none")
    /\ UNCHANGED <<testMode, pc, status, outside>>

\* variant: arming also counts as a failure
activateCircuitBreakerCounts(c) ==
    /\ pc[c] = "idle"
    /\ circuitBreaker.consecutiveFailures < MaxFailuresSeen
    /\ circuitBreaker' = [circuitBreaker EXCEPT
                            !.isActive = TRUE,
                            !.consecutiveFailures = @ + 1]
    /\ last' = Outcome("activateCircuitBreaker", c, "returned", "none", NoTx,
                       "none", "none")
    /\ UNCHANGED <<testMode, pc, status, outside>>

activateCircuitBreaker(c) ==
    /\ pc[c] = "idle"
    /\ circuitBreaker' = [circuitBreaker EXCEPT !.isActive = TRUE]
    /\ last' = Outcome("activateCircuitBreaker", c, "returned", "none", NoTx,
                       "none", "none")
    /\ UNCHANGED <<testMode, pc, status, outside>>

deactivateCircuitBreaker(c) ==
    /\ pc[c] = "idle"
    /\ circuitBreaker' = deactivatedCircuitBreaker(circuitBreaker)
    /\ last' = Outcome("deactivateCircuitBreaker", c, "returned", "none", NoTx,
                       "none", "none")
    /\ UNCHANGED <<testMode, pc, status, outside>>

disableTestMode(c) ==
    /\ pc[c] = "idle"
    /\ testMode' = disabledTestMode(testMode)
    /\ last' = Outcome("disableTestMode", c, "returned", "none", NoTx, "none",
                       "none")
    /\ UNCHANGED <<circuitBreaker, pc, status, outside>>

Next ==
    \/ \E c \in Callers, reason \in StopReasons : emergencyStop(c, reason)
    \/ \E c \in Callers : checkCircuitBreaker(c)
    \/ \E c \in Callers, a \in ProviderAddresses : validateFlashloanProvider(c, a)
    \/ \E c \in Callers, txData \in TxDatas : validateTransaction(c, txData)
    \/ \E c \in Callers : monitoredTransactionCall(c)
    \/ \E c \in Callers : monitoredTransactionResolved(c)
    \/ \E c \in Callers : monitoredTransactionRejected(c)
    \/ \E c \in Callers : getSafetyStatus(c)
    \/ \E c \in Callers : activateCircuitBreaker(c)
    \/ \E c \in Callers : deactivateCircuitBreaker(c)
    \/ \E c \in Callers : disableTestMode(c)

Spec == Init /\ [][Next]_vars

TypeOK ==
    /\ circuitBreaker.consecutiveFailures \in 0..MaxFailuresSeen
    /\ circuitBreaker.isActive \in BOOLEAN
    /\ testMode.enabled \in BOOLEAN
    /\ testMode.completedTrades \in 0..MaxTradesSeen
    /\ pc \in [Callers -> {"idle", "awaiting"}]

(* ---------------- slippage protection ---------------- *)

\* the arguments of the call in the test of the safety measures, and every
\* whole expected output up to MaxExpectedOut
AmountsIn == {1000}
ExpectedOuts == 0..MaxExpectedOut

\* calculateSafeSlippage, line 73: the quotient
\* expectedOut * (10000 - maxSlippageTolerance) / 10000, kept as a fraction
safeMinOutOf(expectedOut) ==
    [num |-> expectedOut * (10000 - maxSlippageTolerance), den |-> 10000]

\* calculateSafeSlippage(amountIn, expectedOut): reads SAFETY_CONFIG, writes
\* nothing, returns the minimum output
calculateSafeSlippage(c, amountIn, expectedOut) ==
    /\ pc[c] = "idle"
    /\ slippage' = [called |-> TRUE, amountIn |-> amountIn,
                    expectedOut |-> expectedOut,
                    safeMinOut |-> safeMinOutOf(expectedOut)]
    /\ last' = Outcome("calculateSafeSlippage", c, "returned", "none", NoTx,
                       "none", "none")
    /\ UNCHANGED <<circuitBreaker, testMode, pc, status, stopper, launcher>>

\* the slippage computation next to the status snapshot that reports the limit
NextSlippage ==
    \/ \E c \in Callers, amountIn \in AmountsIn, expectedOut \in ExpectedOuts :
          calculateSafeSlippage(c, amountIn, expectedOut)
    \/ \E c \in Callers : getSafetyStatus(c)

SpecSlippage == Init /\ [][NextSlippage]_vars

(* ---------------- the stop script ---------------- *)

\* stop_bot.js line 137
maxAttempts == 10

\* process.kill(pid, signal): the signal reaches a running process, and the
\* call throws when the process is gone
Kill(signal) ==
    [signal |-> signal, delivered |-> stopper.proc = "running"]

\* variant: one more wait is allowed when the attempts are used up
loopContinuesOneMore(attempts, running) ==
    attempts <= maxAttempts /\ running

\* the condition of the while loop, line 139
loopContinues(attempts, running) ==
    attempts < maxAttempts /\ running

CoreUnchanged ==
    UNCHANGED <<circuitBreaker, testMode, pc, last, status, slippage, launcher>>

\* line 60: readPidFile finds bot.pid and parses the pid
stopBotReadPidFile ==
    /\ stopper.pc = "readPidFile"
    /\ stopper.pidFile
    /\ stopper' = [stopper EXCEPT !.pc = "isProcessRunning"]
    /\ CoreUnchanged

\* lines 122-126: a process that is not running leaves only the cleanup
stopBotIsProcessRunning ==
    /\ stopper.pc = "isProcessRunning"
    /\ stopper' = IF stopper.proc = "running"
                     THEN [stopper EXCEPT !.pc = "SIGTERM"]
                     ELSE [stopper EXCEPT !.pc = "done", !.pidFile = FALSE]
    /\ CoreUnchanged

\* line 132: process.kill(pid, 'SIGTERM'); a throw goes to the catch block
stopBotSendsSIGTERM ==
    /\ stopper.pc = "SIGTERM"
    /\ stopper' = [stopper EXCEPT
                     !.signals = Append(@, Kill("SIGTERM")),
                     !.pc = IF stopper.proc = "running" THEN "while"
                                                        ELSE "catch"]
    /\ CoreUnchanged

\* line 139: the test of the while loop
stopBotLoopTest ==
    /\ stopper.pc = "while"
    /\ stopper' = [stopper EXCEPT
                     !.pc = IF loopContinues(stopper.attempts,
                                             stopper.proc = "running")
                               THEN "setTimeout" ELSE "if"]
    /\ CoreUnchanged

\* lines 140-141: the one-second wait is over, attempts++
stopBotWaited ==
    /\ stopper.pc = "setTimeout"
    /\ stopper' = [stopper EXCEPT !.attempts = @ + 1, !.pc = "while"]
    /\ CoreUnchanged

\* line 145: if (isProcessRunning(pid))
stopBotTimeoutTest ==
    /\ stopper.pc = "if"
    /\ stopper' = [stopper EXCEPT
                     !.pc = IF stopper.proc = "running" THEN "SIGKILL"
                                                        ELSE "removePidFile"]
    /\ CoreUnchanged

\* line 147: process.kill(pid, 'SIGKILL'); a throw goes to the catch block
stopBotSendsSIGKILL ==
    /\ stopper.pc = "SIGKILL"
    /\ stopper' = [stopper EXCEPT
                     !.signals = Append(@, Kill("SIGKILL")),
                     !.proc = IF @ = "running" THEN "killed" ELSE @,
                     !.pc = IF stopper.proc = "running" THEN "removePidFile"
                                                        ELSE "catch"]
    /\ CoreUnchanged

\* lines 153-162: the catch block tries SIGKILL and swallows its error
stopBotFallback ==
    /\ stopper.pc = "catch"
    /\ stopper' = [stopper EXCEPT
                     !.signals = Append(@, Kill("SIGKILL")),
                     !.proc = IF @ = "running" THEN "killed" ELSE @,
                     !.pc = "removePidFile"]
    /\ CoreUnchanged

\* line 166: removePidFile(), lines 34-42; the unlink of the script's own
\* file succeeds
stopBotRemovePidFile ==
    /\ stopper.pc = "removePidFile"
    /\ stopper' = [stopper EXCEPT !.pidFile = FALSE, !.pc = "done"]
    /\ CoreUnchanged

\* the bot process dies on its own at any moment, leaving bot.pid behind
botCrashes ==
    /\ stopper.proc = "running"
    /\ stopper' = [stopper EXCEPT !.proc = "crashed"]
    /\ CoreUnchanged

\* launch_bot.js gracefulShutdown: after SIGTERM the bot removes bot.pid
\* and exits
botShutsDown ==
    /\ stopper.proc = "running"
    /\ \E i \in 1..Len(stopper.signals) :
          stopper.signals[i] = [signal |-> "SIGTERM", delivered |-> TRUE]
    /\ stopper' = [stopper EXCEPT !.proc = "exited", !.pidFile = FALSE]
    /\ CoreUnchanged

\* the steps of stopBot
stopBot ==
    \/ stopBotReadPidFile
    \/ stopBotIsProcessRunning
    \/ stopBotSendsSIGTERM
    \/ stopBotLoopTest
    \/ stopBotWaited
    \/ stopBotTimeoutTest
    \/ stopBotSendsSIGKILL
    \/ stopBotFallback
    \/ stopBotRemovePidFile

\* the stop script and the bot process it stops
NextStop ==
    \/ stopBot
    \/ botCrashes
    \/ botShutsDown

\* the script is a running node process: its next step is eventually taken
SpecStop == Init /\ [][NextStop]_vars /\ WF_vars(stopBot)

(* ---------------- the launcher ---------------- *)

\* the events of lines 72-85 whose handlers call gracefulShutdown
ShutdownSignals ==
    {"SIGINT", "SIGTERM", "SIGUSR2", "uncaughtException", "unhandledRejection"}

LauncherFrame ==
    UNCHANGED <<circuitBreaker, testMode, pc, last, status, slippage, stopper>>

\* variant: the flag stops a new call only after bot.stop() has settled
returnsAtOnceAfterStop(l) ==
    l.isShuttingDown /\ l.shutdown # "awaiting bot.stop()"

\* line 29: if (isShuttingDown) return
returnsAtOnce(l) == l.isShuttingDown

\* lines 50-59: the unlink of bot.pid when it exists, by call n
CleanedUp(l, n) ==
    [l EXCEPT !.pidFile = FALSE,
              !.unlinks = IF l.pidFile THEN @ \cup {n} ELSE @]

\* main(), lines 144-153: bot = new ArbitrageBot(...), bot.initialize()
mainInitializesBot ==
    /\ ~launcher.exited
    /\ launcher.phase = "launching"
    /\ launcher' = [launcher EXCEPT !.phase = "initialized", !.bot = TRUE]
    /\ LauncherFrame

\* main(), lines 181-196: bot.pid is written and bot.start() is awaited
mainWritesPidFile ==
    /\ ~launcher.exited
    /\ launcher.phase = "initialized"
    /\ launcher' = [launcher EXCEPT !.phase = "running", !.pidFile = TRUE]
    /\ LauncherFrame

\* main(), lines 198-210: an awaited call of main throws; the catch block
\* awaits bot.stop() when there is a bot, else exits at once
mainFails ==
    /\ ~launcher.exited
    /\ launcher.phase \in {"launching", "initialized", "running"}
    /\ launcher' = IF launcher.bot
                      THEN [launcher EXCEPT !.phase = "cleanup",
                                            !.cleanupStops = @ + 1]
                      ELSE [launcher EXCEPT !.phase = "cleanup",
                                            !.exited = TRUE]
    /\ LauncherFrame

\* main(), lines 203-210: the cleanup's bot.stop() has settled, process.exit(1)
mainExits ==
    /\ ~launcher.exited
    /\ launcher.phase = "cleanup"
    /\ launcher' = [launcher EXCEPT !.exited = TRUE]
    /\ LauncherFrame

\* an event arrives and its handler calls gracefulShutdown(signal): lines
\* 28-35 up to the await of bot.stop(), or to process.exit(0) when bot is null
gracefulShutdown(signal) ==
    /\ ~launcher.exited
    /\ launcher.calls < MaxEvents
    /\ LET n == launcher.calls + 1
           called == [launcher EXCEPT !.calls = n] IN
         launcher' =
            IF returnsAtOnce(launcher)
            THEN [called EXCEPT
                    !.lastCall = [index |-> n, signal |-> signal,
                                  effect |-> "returned"]]
            ELSE IF launcher.bot
                 THEN [called EXCEPT
                         !.isShuttingDown = TRUE,
                         !.shutdown = "awaiting bot.stop()",
                         !.stops = @ \cup {n},
                         !.lastCall = [index |-> n, signal |-> signal,
                                       effect |-> "shutting down"]]
                 ELSE [CleanedUp(called, n) EXCEPT
                         !.isShuttingDown = TRUE,
                         !.shutdown = "done",
                         !.exited = TRUE,
                         !.lastCall = [index |-> n, signal |-> signal,
                                       effect |-> "shutting down"]]
    /\ LauncherFrame

\* lines 36-64: bot.stop() has resolved; the statistics are printed, bot.pid is
\* removed, process.exit(0)
botStopResolved ==
    /\ ~launcher.exited
    /\ launcher.shutdown = "awaiting bot.stop()"
    /\ \E n \in launcher.stops :
          launcher' = [CleanedUp(launcher, n) EXCEPT
                         !.shutdown = "done", !.exited = TRUE]
    /\ LauncherFrame

\* lines 65-68: bot.stop() has rejected, or bot.getStatus() or the printing of
\* the statistics has thrown; process.exit(1) with bot.pid left in place
botStopRejected ==
    /\ ~launcher.exited
    /\ launcher.shutdown = "awaiting bot.stop()"
    /\ launcher' = [launcher EXCEPT !.shutdown = "failed", !.exited = TRUE]
    /\ LauncherFrame

\* the launcher, the events that reach it and the bot it stops
NextLaunch ==
    \/ mainInitializesBot
    \/ mainWritesPidFile
    \/ mainFails
    \/ mainExits
    \/ \E signal \in ShutdownSignals : gracefulShutdown(signal)
    \/ botStopResolved
    \/ botStopRejected

SpecLaunch == Init /\ [][NextLaunch]_vars

(* ---------------- vocabulary of the properties ---------------- *)

tripped == circuitBreaker.isActive
consecutiveFailures == circuitBreaker.consecutiveFailures
completedTrades == testMode.completedTrades

Validators == {"validateTransaction", "validateFlashloanProvider"}

\* the constraints of the validator, stated on an intent and a test-mode profile
GasViolated(tx) == tx.gasPrice # Absent /\ tx.gasPrice > 1000
ApplicableCeiling(tm) == IF tm.enabled THEN 500 ELSE 10000
SizeViolated(tx, tm) == tx.amount # Absent /\ tx.amount > ApplicableCeiling(tm)
TestLimitViolated(tm) == tm.enabled /\ tm.completedTrades >= tm.maxTestTrades
CounterpartyViolated(a) == a \notin authorizedFlashloanProviders

ViolationCount(tx, tm) ==
    (IF GasViolated(tx) THEN 1 ELSE 0) + (IF SizeViolated(tx, tm) THEN 1 ELSE 0)
    + (IF TestLimitViolated(tm) THEN 1 ELSE 0)

(* ---------------- C1 ---------------- *)
\* C1: while the breaker is tripped, a call of the guarded wrapper fails at
\* once with the circuit-open error and never gets as far as running (awaiting)
\* its operation.
C1_TrippedBlocksExecution ==
    [][\A c \in Callers :
          (tripped /\ pc[c] = "idle" /\ last'.op = "monitoredTransaction"
             /\ last'.caller = c)
          => (last'.outcome = "threw" /\ pc'[c] = "idle")]_vars

(* ---------------- C2 ---------------- *)
\* C2: with a threshold of 3, a failed guarded execution adds one to the count;
\* the breaker stays READY while the count is below 3 and is TRIPPED as soon as
\* the count is 3; a successful guarded execution puts the count back to 0.
C2_ThresholdProperty ==
    [][\A c \in Callers :
          /\ monitoredTransactionRejected(c) =>
               /\ consecutiveFailures' = consecutiveFailures + 1
               /\ (~tripped /\ consecutiveFailures' < 3) => ~tripped'
               /\ consecutiveFailures' >= 3 => tripped'
          /\ monitoredTransactionResolved(c) => consecutiveFailures' = 0]_vars

C2_Witness ==
    /\ last.op = "monitoredTransaction"
    /\ last.promise = "rejected"
    /\ ~last.before.circuitBreaker.isActive
    /\ last.before.circuitBreaker.consecutiveFailures = 2
    /\ consecutiveFailures = 3
    /\ tripped

(* ---------------- C3 ---------------- *)
\* C3: the only step that takes the breaker from TRIPPED to READY is a call of
\* deactivateCircuitBreaker.
C3_NoAutomaticRecovery ==
    [][(tripped /\ ~tripped') => \E c \in Callers : deactivateCircuitBreaker(c)]_vars

C3_Witness ==
    /\ last.op = "deactivateCircuitBreaker"
    /\ last.before.circuitBreaker.isActive
    /\ ~tripped

(* ---------------- C4 ---------------- *)
\* C4 as stated: a step from READY to TRIPPED is a failed guarded execution
\* that brings the count to the threshold, a validator rejection, or a call of
\* activateCircuitBreaker.
C4_Original ==
    [][(~tripped /\ tripped') =>
         \/ \E c \in Callers :
               monitoredTransactionRejected(c)
               /\ consecutiveFailures' >= circuitBreaker.maxFailures
         \/ \E c \in Callers, txData \in TxDatas :
               validateTransaction(c, txData) /\ last'.outcome = "threw"
         \/ \E c \in Callers, a \in ProviderAddresses :
               validateFlashloanProvider(c, a) /\ last'.outcome = "threw"
         \/ \E c \in Callers : activateCircuitBreaker(c)]_vars

\* C4 as amended: the causes are those three or a direct call of the exported
\* emergencyStop; every other step leaves a READY breaker READY.
C4_TripCauses ==
    [][(~tripped /\ tripped') =>
         \/ \E c \in Callers :
               monitoredTransactionRejected(c)
               /\ consecutiveFailures' >= circuitBreaker.maxFailures
         \/ \E c \in Callers, txData \in TxDatas :
               validateTransaction(c, txData) /\ last'.outcome = "threw"
         \/ \E c \in Callers, a \in ProviderAddresses :
               validateFlashloanProvider(c, a) /\ last'.outcome = "threw"
         \/ \E c \in Callers : activateCircuitBreaker(c)
         \/ \E c \in Callers, reason \in StopReasons : emergencyStop(c, reason)]_vars

C4_Witness ==
    /\ ~last.before.circuitBreaker.isActive
    /\ tripped
    /\ last.op = "monitoredTransaction"
    /\ last.error = "Too many consecutive failures"

(* ---------------- C5 ---------------- *)
\* C5: right after deactivateCircuitBreaker the breaker is READY with a count
\* of 0, and a guarded execution that finds the breaker so and whose operation
\* succeeds returns normally.
C5_DisarmResets ==
    /\ last.op = "deactivateCircuitBreaker" =>
         (~tripped /\ consecutiveFailures = 0 /\ last.outcome = "returned")
    /\ (/\ last.op = "monitoredTransaction"
        /\ last.promise = "fulfilled"
        /\ ~last.before.circuitBreaker.isActive
        /\ last.before.circuitBreaker.consecutiveFailures = 0)
       => (last.outcome = "returned" /\ last.error = "none")

C5_Witness ==
    /\ last.op = "deactivateCircuitBreaker"
    /\ last.before.circuitBreaker.isActive
    /\ last.before.circuitBreaker.consecutiveFailures >= 3
    /\ ~tripped
    /\ consecutiveFailures = 0

(* ---------------- C6 ---------------- *)
\* C6: a validation of an intent whose present fields are within the limits,
\* made while the test-trade limit is not reached, returns normally and leaves
\* the breaker as it was.
C6_ValidIntentAccepted ==
    /\ (/\ last.op = "validateTransaction"
        /\ ViolationCount(last.txData, last.before.testMode) = 0)
       => (/\ last.outcome = "returned"
           /\ last.error = "none"
           /\ circuitBreaker = last.before.circuitBreaker)
    /\ (/\ last.op = "validateFlashloanProvider"
        /\ ~CounterpartyViolated(last.provider))
       => (/\ last.outcome = "returned"
           /\ last.error = "none"
           /\ circuitBreaker = last.before.circuitBreaker)

C6_Witness ==
    /\ last.op = "validateTransaction"
    /\ last.txData = [gasPrice |-> 1000, amount |-> 500]
    /\ testMode.enabled
    /\ last.outcome = "returned"
    /\ ~tripped

(* ---------------- C7 ---------------- *)
\* C7: a validation of an intent that violates exactly one constraint is
\* rejected with the reason of that constraint and leaves the breaker TRIPPED.
C7_SingleViolationReason ==
    /\ (/\ last.op = "validateTransaction"
        /\ ViolationCount(last.txData, last.before.testMode) = 1)
       => (/\ last.outcome = "threw"
           /\ tripped
           /\ GasViolated(last.txData) => last.error = "Gas price too high"
           /\ SizeViolated(last.txData, last.before.testMode)
                 => last.error = "Trade size too large"
           /\ TestLimitViolated(last.before.testMode)
                 => last.error = "Test mode limit reached")
    /\ (/\ last.op = "validateFlashloanProvider"
        /\ CounterpartyViolated(last.provider))
       => (/\ last.outcome = "threw"
           /\ tripped
           /\ last.error = "Unauthorized flashloan provider")

C7_Witness ==
    /\ last.op = "validateTransaction"
    /\ last.txData = [gasPrice |-> Absent, amount |-> Absent]
    /\ ~last.before.circuitBreaker.isActive
    /\ last.error = "Test mode limit reached"
    /\ tripped

(* ---------------- C8 ---------------- *)
\* C8: a validation that finds any constraint violated, however many, throws
\* to its caller, and the breaker is TRIPPED in the state it leaves.
C8_RejectionTripsAndRaises ==
    (/\ last.op \in Validators
     /\ \/ ViolationCount(last.txData, last.before.testMode) >= 1
              /\ last.op = "validateTransaction"
        \/ CounterpartyViolated(last.provider)
              /\ last.op = "validateFlashloanProvider")
    => (last.outcome = "threw" /\ last.error # "none" /\ tripped)

C8_Witness ==
    /\ last.op = "validateTransaction"
    /\ ViolationCount(last.txData, last.before.testMode) = 3
    /\ ~last.before.circuitBreaker.isActive
    /\ last.outcome = "threw"
    /\ tripped

(* ---------------- C9 ---------------- *)
\* C9 as stated: when test mode is enabled and the test-trade limit is reached,
\* every validation is rejected with the test-limit reason, whatever the
\* amount.
C9_Original ==
    (last.op = "validateTransaction" /\ TestLimitViolated(last.before.testMode))
    => (last.outcome = "threw" /\ last.error = "Test mode limit reached")

\* C9 as amended: in that situation every validation is rejected; the reason
\* is the test-limit one exactly when neither the gas price nor the amount is
\* over its limit, otherwise it is the reason of the gas price or of the amount.
C9_TestLimitRejects ==
    (last.op = "validateTransaction" /\ TestLimitViolated(last.before.testMode))
    => /\ last.outcome = "threw"
       /\ tripped
       /\ (last.error = "Test mode limit reached")
            <=> (~GasViolated(last.txData)
                 /\ ~SizeViolated(last.txData, last.before.testMode))
       /\ last.error \in {"Test mode limit reached", "Gas price too high",
                          "Trade size too large"}

C9_Witness ==
    /\ last.op = "validateTransaction"
    /\ last.before.testMode.completedTrades = 5
    /\ last.before.testMode.enabled
    /\ last.txData.amount = 500
    /\ last.error = "Test mode limit reached"

(* ---------------- C10 ---------------- *)
\* C10: while test mode is enabled, the number of completed trades is at most
\* the test limit of 5.
C10_TestTradesBounded ==
    testMode.enabled => completedTrades <= 5

(* ---------------- C11 ---------------- *)
\* C11: a guarded execution whose operation fails adds one to the count, trips
\* the breaker when the new count reaches the threshold, and throws the
\* operation's own error to its caller in every case.
C11_OriginalErrorRethrown ==
    (last.op = "monitoredTransaction" /\ last.promise = "rejected")
    => /\ consecutiveFailures
            = last.before.circuitBreaker.consecutiveFailures + 1
       /\ consecutiveFailures >= circuitBreaker.maxFailures => tripped
       /\ last.outcome = "threw"
       /\ last.error = "operation failed"

(* ---------------- C12 ---------------- *)
\* C12: a guarded execution whose operation succeeds sets the count to 0, adds
\* exactly one to completedTrades when test mode is enabled and leaves it alone
\* when it is disabled, leaves tripped as it was, and returns normally.
C12_SuccessBookkeeping ==
    (last.op = "monitoredTransaction" /\ last.promise = "fulfilled")
    => /\ consecutiveFailures = 0
       /\ completedTrades
            = last.before.testMode.completedTrades
              + (IF last.before.testMode.enabled THEN 1 ELSE 0)
       /\ tripped = last.before.circuitBreaker.isActive
       /\ testMode.enabled = last.before.testMode.enabled
       /\ last.outcome = "returned"
       /\ last.error = "none"

C12_Witness ==
    /\ last.op = "monitoredTransaction"
    /\ last.promise = "fulfilled"
    /\ ~last.before.testMode.enabled
    /\ last.before.testMode.completedTrades = 2
    /\ last.before.circuitBreaker.consecutiveFailures = 2
    /\ completedTrades = 2
    /\ consecutiveFailures = 0

(* ---------------- C13 ---------------- *)
\* C13: the step that settles a guarded execution does the success bookkeeping
\* or the failure bookkeeping, never both and never neither, and it ends the
\* call; when the operation failed the call ends by throwing.
C13_BookkeepingExactlyOnce ==
    [][\A c \in Callers :
          (pc[c] = "awaiting" /\ pc'[c] # pc[c]) =>
             /\ pc'[c] = "idle"
             /\ last'.op = "monitoredTransaction"
             /\ last'.caller = c
             /\ \/ /\ last'.promise = "fulfilled"
                   /\ last'.outcome = "returned"
                   /\ consecutiveFailures' = 0
                   /\ completedTrades' - completedTrades
                        = (IF testMode.enabled THEN 1 ELSE 0)
                \/ /\ last'.promise = "rejected"
                   /\ last'.outcome = "threw"
                   /\ consecutiveFailures' = consecutiveFailures + 1
                   /\ completedTrades' = completedTrades]_vars

C13_Witness ==
    /\ last.op = "monitoredTransaction"
    /\ last.promise = "rejected"
    /\ last.outcome = "threw"
    /\ last.error = "operation failed"
    /\ consecutiveFailures = 1
    /\ pc[last.caller] = "idle"

(* ---------------- C14 ---------------- *)
\* C14: in every step the count of consecutive failures stays the same, or
\* grows by one in a failed guarded execution, or becomes 0 in a successful
\* guarded execution or a deactivateCircuitBreaker; it is never negative.
C14_FailureCountSteps ==
    [][/\ consecutiveFailures' >= 0
       /\ \/ consecutiveFailures' = consecutiveFailures
          \/ /\ consecutiveFailures' = consecutiveFailures + 1
             /\ \E c \in Callers : monitoredTransactionRejected(c)
          \/ /\ consecutiveFailures' = 0
             /\ \E c \in Callers : \/ monitoredTransactionResolved(c)
                                   \/ deactivateCircuitBreaker(c)]_vars

C14_Witness ==
    /\ last.op = "deactivateCircuitBreaker"
    /\ ~last.before.circuitBreaker.isActive
    /\ last.before.circuitBreaker.consecutiveFailures = 1
    /\ consecutiveFailures = 0

(* ---------------- C15 ---------------- *)
\* C15: completedTrades never decreases in any step.
C15_CompletedTradesMonotonic ==
    [][completedTrades' >= completedTrades]_vars

C15_Witness ==
    /\ last.op = "disableTestMode"
    /\ last.before.testMode.enabled
    /\ last.before.testMode.completedTrades = 3
    /\ completedTrades = 3
    /\ ~testMode.enabled

(* ---------------- C16 ---------------- *)
\* C16 as stated: when the amount is present, the validation is rejected with
\* the trade-size reason exactly when the amount is strictly greater than the
\* ceiling of the current mode (500 in test mode, 10000 otherwise).
C16_Original ==
    (last.op = "validateTransaction" /\ last.txData.amount # Absent)
    => ((last.error = "Trade size too large")
          <=> last.txData.amount > ApplicableCeiling(last.before.testMode))

\* C16 as amended: the rejection has the trade-size reason exactly when the
\* amount is strictly greater than the ceiling of the current mode and the gas
\* price is not over its limit (otherwise the gas-price reason is reported);
\* an amount equal to the ceiling is never the cause of a rejection.
C16_TradeSizeCeiling ==
    (last.op = "validateTransaction" /\ last.txData.amount # Absent)
    => /\ (last.error = "Trade size too large")
            <=> (/\ last.txData.amount > ApplicableCeiling(last.before.testMode)
                 /\ ~GasViolated(last.txData))
       /\ (/\ last.txData.amount > ApplicableCeiling(last.before.testMode)
           /\ GasViolated(last.txData))
          => last.error = "Gas price too high"
       /\ (/\ last.txData.amount <= ApplicableCeiling(last.before.testMode)
           /\ ~GasViolated(last.txData)
           /\ ~TestLimitViolated(last.before.testMode))
          => last.outcome = "returned"

C16_Witness ==
    /\ last.op = "validateTransaction"
    /\ last.txData = [gasPrice |-> Absent, amount |-> 10000]
    /\ ~last.before.testMode.enabled
    /\ last.outcome = "returned"

(* ---------------- C17 ---------------- *)
\* C17: a validation is rejected with the gas-price reason exactly when the
\* gas price is present and strictly greater than 1000; an absent field is not
\* the cause of a rejection, and an intent with no fields is accepted whenever
\* the test-trade limit is not reached.
C17_GasPriceLimit ==
    last.op = "validateTransaction"
    => /\ (last.error = "Gas price too high")
            <=> (last.txData.gasPrice # Absent /\ last.txData.gasPrice > 1000)
       /\ last.txData.amount = Absent => last.error # "Trade size too large"
       /\ (last.txData = NoTx /\ ~TestLimitViolated(last.before.testMode))
          => (last.outcome = "returned" /\ last.error = "none")

C17_Witness ==
    /\ last.op = "validateTransaction"
    /\ last.txData = NoTx
    /\ last.before.testMode.enabled
    /\ last.before.testMode.completedTrades = 4
    /\ last.outcome = "returned"

(* ---------------- C18 ---------------- *)
\* C18: validateFlashloanProvider returns exactly for the addresses that are in
\* the authorized list character for character, and then leaves the breaker
\* alone; for any other address it throws the unauthorized-provider error and
\* leaves the breaker TRIPPED.
C18_ExactAllowList ==
    last.op = "validateFlashloanProvider"
    => /\ last.outcome \in {"returned", "threw"}
       /\ (last.outcome = "returned")
            <=> (last.provider \in authorizedFlashloanProviders)
       /\ last.outcome = "returned"
            => (last.error = "none" /\ circuitBreaker = last.before.circuitBreaker)
       /\ last.outcome = "threw"
            => (last.error = "Unauthorized flashloan provider" /\ tripped)
       /\ testMode = last.before.testMode

C18_Witness ==
    /\ last.op = "validateFlashloanProvider"
    /\ last.provider = "0x7d2768de32b0b80b7a3454c06bdac94a69ddc7a9"
    /\ ~last.before.circuitBreaker.isActive
    /\ last.outcome = "threw"
    /\ tripped

(* ---------------- C19 ---------------- *)
\* what the holder of the returned status object reads through it now
StatusRead ==
    [circuitBreaker |-> Deref(status.circuitBreaker),
     testMode |-> Deref(status.testMode),
     limits |-> status.limits]

\* C19: the value returned by getSafetyStatus is a copy: whatever the core does
\* afterwards, the holder of the returned object still reads what it read when
\* the call returned.
C19_SnapshotIsCopy ==
    status.taken => StatusRead.testMode.enabled = status.atReturn.enabled

(* ---------------- C20 ---------------- *)
\* C20: a getSafetyStatus call changes nothing in SAFETY_CONFIG, what it
\* returns shows the state of the call instant, and a second call with nothing
\* in between returns an equal value.
C20_SnapshotPure ==
    [][\A c \in Callers :
          getSafetyStatus(c) =>
             /\ circuitBreaker' = circuitBreaker
             /\ testMode' = testMode
             /\ pc' = pc
             /\ status'.taken
             /\ Deref(status'.circuitBreaker) = circuitBreaker
             /\ Deref(status'.testMode) = testMode
             /\ status'.atReturn.enabled = testMode.enabled
             /\ status'.limits.maxGasPrice = 1000
             /\ status'.limits.maxTradeSize = ApplicableCeiling(testMode)
             /\ last.op = "getSafetyStatus" => status' = status]_vars

C20_Witness ==
    /\ last.op = "getSafetyStatus"
    /\ status.taken
    /\ ~testMode.enabled
    /\ tripped
    /\ completedTrades = 2
    /\ status.limits.maxTradeSize = 10000
    /\ StatusRead.circuitBreaker.isActive

(* ---------------- C21 ---------------- *)
\* C21: while several guarded executions are pending, each one that settles
\* does its bookkeeping on the current counters: a failure adds exactly one to
\* the count and the breaker is TRIPPED in that same step when the new count
\* has reached the threshold, a success in test mode adds exactly one to
\* completedTrades.
C21_NoLostUpdate ==
    [][\A c \in Callers :
          (\E d \in Callers \ {c} : pc[d] = "awaiting") =>
             /\ monitoredTransactionRejected(c) =>
                  /\ consecutiveFailures' = consecutiveFailures + 1
                  /\ consecutiveFailures' >= circuitBreaker.maxFailures
                       => tripped'
                  /\ completedTrades' = completedTrades
             /\ monitoredTransactionResolved(c) =>
                  /\ testMode.enabled => completedTrades' = completedTrades + 1
                  /\ consecutiveFailures' = 0]_vars

C21_Witness ==
    /\ last.op = "monitoredTransaction"
    /\ last.promise = "rejected"
    /\ \E d \in Callers \ {last.caller} : pc[d] = "awaiting"
    /\ ~last.before.circuitBreaker.isActive
    /\ last.before.circuitBreaker.consecutiveFailures = 2
    /\ consecutiveFailures = 3
    /\ tripped

(* ---------------- C22 ---------------- *)
\* C22: deactivateCircuitBreaker is one step: whatever else is pending, the
\* step that clears tripped is the step that sets the count to 0, so no state
\* has the one done and the other still to do.
C22_DisarmAtomic ==
    [][/\ (tripped /\ ~tripped') => consecutiveFailures' = 0
       /\ \A c \in Callers :
             deactivateCircuitBreaker(c)
             => (~tripped' /\ consecutiveFailures' = 0 /\ pc' = pc)]_vars

C22_Witness ==
    /\ last.op = "deactivateCircuitBreaker"
    /\ \E d \in Callers : pc[d] = "awaiting"
    /\ last.before.circuitBreaker.isActive
    /\ last.before.circuitBreaker.consecutiveFailures = 2
    /\ ~tripped
    /\ consecutiveFailures = 0

(* ---------------- C23 ---------------- *)
\* C23: while a guarded execution is waiting for its operation, every other
\* caller can still run activateCircuitBreaker, deactivateCircuitBreaker, a
\* validation or getSafetyStatus, and another pending guarded execution can
\* settle (as far as the counters of the model go).
C23_NoLockWhilePending ==
    \A c \in Callers :
       pc[c] = "awaiting" =>
          \A d \in Callers \ {c} :
             /\ pc[d] = "idle" =>
                  /\ ENABLED activateCircuitBreaker(d)
                  /\ ENABLED deactivateCircuitBreaker(d)
                  /\ ENABLED getSafetyStatus(d)
                  /\ ENABLED validateTransaction(d, NoTx)
                  /\ ENABLED validateFlashloanProvider(
                               d, "0x7d2768dE32b0b80b7a3454c06BdAc94A69DDc7A9")
                  /\ ENABLED monitoredTransactionCall(d)
             /\ pc[d] = "awaiting" =>
                  /\ consecutiveFailures < MaxFailuresSeen
                       => ENABLED monitoredTransactionRejected(d)
                  /\ (testMode.enabled => completedTrades < MaxTradesSeen)
                       => ENABLED monitoredTransactionResolved(d)

C23_Witness ==
    /\ last.op = "activateCircuitBreaker"
    /\ \E c \in Callers \ {last.caller} : pc[c] = "awaiting"
    /\ ~last.before.circuitBreaker.isActive
    /\ tripped

(* ---------------- C24 ---------------- *)
\* C24: with test mode disabled a validation is never rejected for the
\* test-trade limit, the trade ceiling is 10000, a successful guarded
\* execution leaves completedTrades alone, and the gas-price check and the
\* failure count work as in test mode.
C24_ProductionMode ==
    ~last.before.testMode.enabled =>
       /\ last.op = "validateTransaction" =>
            /\ last.error # "Test mode limit reached"
            /\ (last.error = "Gas price too high") <=> GasViolated(last.txData)
            /\ (last.error = "Trade size too large")
                 <=> (/\ ~GasViolated(last.txData)
                      /\ last.txData.amount # Absent
                      /\ last.txData.amount > 10000)
            /\ (last.outcome = "returned") <=> (last.error = "none")
       /\ (last.op = "monitoredTransaction" /\ last.promise = "fulfilled") =>
            /\ completedTrades = last.before.testMode.completedTrades
            /\ consecutiveFailures = 0
       /\ (last.op = "monitoredTransaction" /\ last.promise = "rejected") =>
            /\ consecutiveFailures
                 = last.before.circuitBreaker.consecutiveFailures + 1
            /\ consecutiveFailures >= 3 => tripped
            /\ (consecutiveFailures < 3 /\ ~last.before.circuitBreaker.isActive)
                 => ~tripped

C24_Witness ==
    /\ last.op = "validateTransaction"
    /\ ~last.before.testMode.enabled
    /\ last.before.testMode.completedTrades >= 5
    /\ last.txData = [gasPrice |-> 1000, amount |-> 10000]
    /\ last.outcome = "returned"

(* ---------------- C25 ---------------- *)
\* C25: a call of emergencyStop always throws and leaves the breaker TRIPPED;
\* the failure count, completedTrades and the test-mode flag are as before.
C25_EmergencyStopEffect ==
    last.op = "emergencyStop" =>
       /\ last.outcome = "threw"
       /\ last.error \in StopReasons
       /\ tripped
       /\ consecutiveFailures = last.before.circuitBreaker.consecutiveFailures
       /\ circuitBreaker.maxFailures = last.before.circuitBreaker.maxFailures
       /\ testMode = last.before.testMode

C25_Witness ==
    /\ last.op = "emergencyStop"
    /\ ~last.before.circuitBreaker.isActive
    /\ last.before.circuitBreaker.consecutiveFailures = 2
    /\ last.before.testMode.completedTrades = 1
    /\ last.outcome = "threw"
    /\ tripped

(* ---------------- C28 ---------------- *)
\* C28: a validation that finds several constraints violated throws once, with
\* the reason of the first violated check in the order gas price, trade size,
\* test-trade limit.
C28_FixedOrder ==
    last.op = "validateTransaction" =>
       /\ last.outcome \in {"returned", "threw"}
       /\ GasViolated(last.txData) => last.error = "Gas price too high"
       /\ (~GasViolated(last.txData)
           /\ SizeViolated(last.txData, last.before.testMode))
          => last.error = "Trade size too large"
       /\ (~GasViolated(last.txData)
           /\ ~SizeViolated(last.txData, last.before.testMode)
           /\ TestLimitViolated(last.before.testMode))
          => last.error = "Test mode limit reached"
       /\ last.outcome = "threw" =>
            last.error \in {"Gas price too high", "Trade size too large",
                            "Test mode limit reached"}

C28_Witness ==
    /\ last.op = "validateTransaction"
    /\ GasViolated(last.txData)
    /\ SizeViolated(last.txData, last.before.testMode)
    /\ TestLimitViolated(last.before.testMode)
    /\ last.error = "Gas price too high"

(* ---------------- C29 ---------------- *)
\* C29: the count of consecutive failures is never above the threshold of 3.
C29_CountWithinThreshold ==
    consecutiveFailures <= circuitBreaker.maxFailures

(* ---------------- C30 ---------------- *)
\* C30: in every state between operations, a count at or above the threshold
\* comes with a TRIPPED breaker.
C30_ThresholdImpliesTripped ==
    consecutiveFailures >= circuitBreaker.maxFailures => tripped

C30_Witness ==
    /\ consecutiveFailures >= circuitBreaker.maxFailures
    /\ tripped
    /\ \E c \in Callers : pc[c] = "awaiting"
    /\ last.op = "validateTransaction"

(* ---------------- C26 ---------------- *)
\* C26: the minimum output returned by calculateSafeSlippage is 95% of the
\* expected output, and the maximum slippage of the status snapshot is 5%.
C26_FivePercent ==
    /\ slippage.called =>
          slippage.safeMinOut.num * 100
             = 95 * slippage.expectedOut * slippage.safeMinOut.den
    /\ status.taken =>
          status.limits.maxSlippage.num * 100
             = 5 * status.limits.maxSlippage.den

(* ---------------- C27 ---------------- *)
SignalsDelivered ==
    SelectSeq(stopper.signals, LAMBDA s : s.delivered)

\* the states of stopBot once it has found bot.pid naming a running process:
\* the first signal it sends is SIGTERM, SIGKILL reaches the process only when
\* it is still running after the 10 waits, there are never more than 10 waits,
\* the script ends, and it ends with bot.pid removed.
C27_StopSafety ==
    /\ stopper.attempts <= 10
    /\ stopper.signals # <<>> => stopper.signals[1].signal = "SIGTERM"
    /\ \/ SignalsDelivered = <<>>
       \/ SignalsDelivered = <<[signal |-> "SIGTERM", delivered |-> TRUE]>>
       \/ /\ SignalsDelivered
               = <<[signal |-> "SIGTERM", delivered |-> TRUE],
                   [signal |-> "SIGKILL", delivered |-> TRUE]>>
          /\ stopper.attempts = 10
          /\ stopper.proc = "killed"
    /\ stopper.pc = "done" => ~stopper.pidFile

C31_Verdict(tx, tm) ==
    IF GasViolated(tx) THEN "Gas price too high"
    ELSE IF SizeViolated(tx, tm) THEN "Trade size too large"
    ELSE IF TestLimitViolated(tm) THEN "Test mode limit reached"
    ELSE "none"

\* C31: the result of a validation is determined by the intent and the
\* test-mode profile alone, whatever the breaker flag and the failure count are;
\* an intent within the limits is accepted while the breaker is tripped.
C31_BreakerIndependent ==
    last.op = "validateTransaction" =>
       /\ last.error = C31_Verdict(last.txData, last.before.testMode)
       /\ last.outcome = (IF last.error = "none" THEN "returned" ELSE "threw")

C31_Witness ==
    /\ last.op = "validateTransaction"
    /\ last.before.circuitBreaker.isActive
    /\ last.before.circuitBreaker.consecutiveFailures = 3
    /\ last.txData.amount = 500
    /\ last.txData.gasPrice = 1000
    /\ last.outcome = "returned"

(* ---------------- C32 ---------------- *)
\* C32: in the state where getSafetyStatus has just returned, an amount is above
\* the reported limits.maxTradeSize exactly when a validation of that amount
\* (gas price within its limit) would be rejected for its size; the reported
\* value is 500 in test mode and 10000 after disableTestMode.
C32_ReportedCeilingApplied ==
    last.op = "getSafetyStatus" =>
       /\ status.limits.maxTradeSize = (IF testMode.enabled THEN 500 ELSE 10000)
       /\ \A c \in Callers, tx \in TxDatas :
             (pc[c] = "idle" /\ tx.amount # Absent /\ ~GasViolated(tx)) =>
                ((tx.amount > status.limits.maxTradeSize)
                 <=> ENABLED (validateTransaction(c, tx)
                              /\ last'.error = "Trade size too large"))

C32_Witness ==
    /\ last.op = "getSafetyStatus"
    /\ last.before.testMode.enabled = FALSE
    /\ status.limits.maxTradeSize = 10000
    /\ \E c \in Callers :
          ENABLED (validateTransaction(c, [gasPrice |-> Absent, amount |-> 10001])
                   /\ last'.error = "Trade size too large")
    /\ \E c \in Callers :
          ENABLED (validateTransaction(c, [gasPrice |-> Absent, amount |-> 10000])
                   /\ last'.outcome = "returned")

(* ---------------- C33 ---------------- *)
\* C33: activateCircuitBreaker returns normally with the breaker TRIPPED and
\* changes neither the failure count, the threshold nor the test-mode profile;
\* on a breaker that is already TRIPPED it changes nothing.
C33_ArmFrame ==
    last.op = "activateCircuitBreaker" =>
       /\ last.outcome = "returned"
       /\ tripped
       /\ consecutiveFailures = last.before.circuitBreaker.consecutiveFailures
       /\ circuitBreaker.maxFailures = last.before.circuitBreaker.maxFailures
       /\ testMode = last.before.testMode
       /\ last.before.circuitBreaker.isActive
             => circuitBreaker = last.before.circuitBreaker

C33_Witness ==
    /\ last.op = "activateCircuitBreaker"
    /\ ~last.before.circuitBreaker.isActive
    /\ last.before.circuitBreaker.consecutiveFailures = 2
    /\ last.before.testMode.completedTrades = 1
    /\ tripped
    /\ consecutiveFailures = 2

(* ---------------- C34 ---------------- *)
\* C34: disableTestMode puts enabled to false and changes neither the trade
\* counter, the test limits nor the breaker; once test mode is disabled no
\* step enables it again.
C34_OneWay ==
    [][/\ ~testMode.enabled => ~testMode'.enabled
       /\ \A c \in Callers :
             disableTestMode(c) =>
                /\ ~testMode'.enabled
                /\ testMode'.completedTrades = testMode.completedTrades
                /\ testMode'.maxTestTrades = testMode.maxTestTrades
                /\ testMode'.maxTestAmount = testMode.maxTestAmount
                /\ circuitBreaker' = circuitBreaker]_vars

C34_Witness ==
    /\ last.op = "disableTestMode"
    /\ last.before.testMode.enabled
    /\ last.before.testMode.completedTrades = 2
    /\ tripped
    /\ ~testMode.enabled
    /\ completedTrades = 2

(* ---------------- C35 ---------------- *)
\* C35: whatever events arrive and in whatever order, only the first call of
\* gracefulShutdown calls bot.stop() and removes bot.pid; every later call,
\* also one made while bot.stop() is awaited, returns and changes nothing.
C35_ShutdownOnce ==
    [][/\ launcher'.stops \subseteq {1}
       /\ launcher'.unlinks \subseteq {1}
       /\ \A signal \in ShutdownSignals :
             (gracefulShutdown(signal) /\ launcher.calls >= 1) =>
                  /\ launcher'.lastCall.effect = "returned"
                  /\ launcher'.isShuttingDown = launcher.isShuttingDown
                  /\ launcher'.shutdown = launcher.shutdown
                  /\ launcher'.stops = launcher.stops
                  /\ launcher'.unlinks = launcher.unlinks
                  /\ launcher'.pidFile = launcher.pidFile
                  /\ launcher'.exited = launcher.exited
                  /\ launcher'.bot = launcher.bot
                  /\ launcher'.phase = launcher.phase]_vars

C35_Witness ==
    /\ launcher.calls = 3
    /\ launcher.lastCall = [index |-> 3, signal |-> "uncaughtException",
                            effect |-> "returned"]
    /\ launcher.shutdown = "awaiting bot.stop()"
    /\ launcher.stops = {1}
    /\ launcher.pidFile
    /\ ~launcher.exited

====
